---- MODULE Spec2Model ----
(***************************************************************************)
(* session-stream: the line processor of main.go (processLine and the      *)
(* helpers it calls) as a state machine.  A log line is read, decoded into  *)
(* a LogEntry, normalised and rendered; the state keeps the line, the       *)
(* process-wide verbose flag and the calls of processLine made so far.     *)
(*                                                                         *)
(* Spec is the line processor.  SpecHelpers calls the extractors and        *)
(* formatters on their own: arg is the call (the function and its           *)
(* argument) and ret what it returned.  The variables of one specification  *)
(* rest in the others.  SpecStream is streamFile reading a file that a      *)
(* writer appends to: file is what has been written, offset how much of it  *)
(* the reader's descriptor has passed, follow and tail the arguments, pc    *)
(* the reader's position in streamFile, pending the lines of the initial    *)
(* display still to process, processed the calls of processLine made (line  *)
(* and result), printed the standard output and totalContext, totalOutput   *)
(* and totalCost the running counters.  SpecStreamAny is SpecStream with a  *)
(* writer that also writes a record of negative usage.                      *)
(***************************************************************************)
EXTENDS Integers, Sequences, FiniteSets, TLC

VARIABLES line, verboseMode, calls, arg, ret,
          file, offset, follow, tail, pc, pending, processed, printed,
          totalContext, totalOutput, totalCost

helperVars == <<arg, ret>>

streamVars == <<file, offset, follow, tail, pc, pending, processed, printed,
                totalContext, totalOutput, totalCost>>

vars == <<line, verboseMode, calls, arg, ret,
          file, offset, follow, tail, pc, pending, processed, printed,
          totalContext, totalOutput, totalCost>>

(***************************************************************************)
(* Go strings.  A Go string is a sequence of bytes; len() counts bytes and  *)
(* s[:k] cuts at a byte offset.  A string is modelled run-length encoded:   *)
(* a sequence of runs [c |-> token, n |-> count], in canonical form (no     *)
(* empty run, no two adjacent runs of the same token).  A token is one      *)
(* character, or a word that the program only ever handles whole (a role    *)
(* name, a key, an ANSI colour code).  Width is the token's UTF-8 length,   *)
(* exact for every token that can occur in a string whose length the        *)
(* program takes (the characters of a text and what fmt prints of a value). *)
(***************************************************************************)
Width(c) ==
    CASE c = "U+00E9" -> 2
      [] c = "U+2026" -> 3
      [] c = "Read HEARTBEAT" -> 14
      [] c \in {"map[", "true", "path"} -> 4
      [] c \in {"false", "<nil>"} -> 5
      [] c \in {"command", "timeout"} -> 7
      [] OTHER -> 1

\* "U+00E9" is e-acute (2 bytes in UTF-8), "U+2026" the ellipsis (3 bytes).
\* HalfRune is the first byte of a two-byte character, left when a slice cuts
\* through it.
HalfRune(c) == IF c = "U+00E9" THEN "\\xc3" ELSE "\\x??"

Run(c, n) == IF n <= 0 THEN <<>> ELSE <<[c |-> c, n |-> n]>>

Lit(c) == <<[c |-> c, n |-> 1]>>

\* s + t
Cat(s, t) ==
    IF s = <<>> THEN t
    ELSE IF t = <<>> THEN s
    ELSE IF s[Len(s)].c = t[1].c
         THEN SubSeq(s, 1, Len(s) - 1)
              \o <<[c |-> t[1].c, n |-> s[Len(s)].n + t[1].n]>>
              \o Tail(t)
         ELSE s \o t

RECURSIVE CatAll(_)
CatAll(ss) == IF ss = <<>> THEN <<>> ELSE Cat(Head(ss), CatAll(Tail(ss)))

\* len(s): the number of bytes
RECURSIVE ByteLen(_)
ByteLen(s) ==
    IF s = <<>> THEN 0 ELSE Head(s).n * Width(Head(s).c) + ByteLen(Tail(s))

\* utf8.RuneCountInString(s): the number of characters
RECURSIVE CharLen(_)
CharLen(s) == IF s = <<>> THEN 0 ELSE Head(s).n + CharLen(Tail(s))

\* s[:k] for 0 <= k <= len(s)
RECURSIVE Take(_, _)
Take(s, k) ==
    IF k <= 0 \/ s = <<>> THEN <<>>
    ELSE LET w    == Width(Head(s).c)
             full == IF k \div w < Head(s).n THEN k \div w ELSE Head(s).n
             rest == k - full * w
         IN  IF full = Head(s).n
             THEN Cat(Run(Head(s).c, full), Take(Tail(s), rest))
             ELSE Cat(Run(Head(s).c, full),
                      IF rest > 0 THEN Run(HalfRune(Head(s).c), rest) ELSE <<>>)

\* The run-time panic of a slice expression whose bound exceeds len(s).
Panic == Lit("panic: slice bounds out of range")

\* s[:k] as Go evaluates it
Slice(s, k) == IF k <= ByteLen(s) THEN Take(s, k) ELSE Panic

IsSpace(c) == c \in {" ", "\n", "\t"}

\* strings.TrimSpace
RECURSIVE TrimLeft(_)
TrimLeft(s) ==
    IF s = <<>> THEN <<>>
    ELSE IF IsSpace(Head(s).c) THEN TrimLeft(Tail(s)) ELSE s

RECURSIVE TrimRight(_)
TrimRight(s) ==
    IF s = <<>> THEN <<>>
    ELSE IF IsSpace(s[Len(s)].c) THEN TrimRight(SubSeq(s, 1, Len(s) - 1)) ELSE s

TrimSpace(s) == TrimRight(TrimLeft(s))

\* strings.HasPrefix(s, p) for a prefix p that is one token
HasPrefix(s, p) == s # <<>> /\ p # <<>> /\ s[1].c = p[1].c

\* strings.Count(s, "\n")
RECURSIVE CountNewlines(_)
CountNewlines(s) ==
    IF s = <<>> THEN 0
    ELSE (IF Head(s).c = "\n" THEN Head(s).n ELSE 0) + CountNewlines(Tail(s))

\* strings.Join(parts, sep)
RECURSIVE Join(_, _)
Join(parts, sep) ==
    IF parts = <<>> THEN <<>>
    ELSE IF Len(parts) = 1 THEN parts[1]
    ELSE Cat(Cat(parts[1], sep), Join(Tail(parts), sep))

\* fmt.Sprintf("%d", n)
DigitChar(d) == <<"0", "1", "2", "3", "4", "5", "6", "7", "8", "9">>[d + 1]

RECURSIVE NatDigits(_)
NatDigits(n) ==
    IF n < 10 THEN Lit(DigitChar(n))
    ELSE Cat(NatDigits(n \div 10), Lit(DigitChar(n % 10)))

Itoa(n) == IF n < 0 THEN Cat(Lit("-"), NatDigits(0 - n)) ELSE NatDigits(n)

(***************************************************************************)
(* JSON documents, as encoding/json reads them.  A number is v + f/10000    *)
(* (f = 0 for an integer); an object is a function from its keys to values. *)
(***************************************************************************)
JNull == [t |-> "null"]
JStr(s) == [t |-> "string", s |-> s]
JNum(v) == [t |-> "number", v |-> v, f |-> 0]
JFrac(v, f) == [t |-> "number", v |-> v, f |-> f]
JBool(b) == [t |-> "bool", b |-> b]
JArr(a) == [t |-> "array", a |-> a]
JObj(o) == [t |-> "object", o |-> o]

Get(o, k) == IF k \in DOMAIN o THEN o[k] ELSE JNull

\* The keys of the model's objects in sorted order (fmt prints a map sorted by key).
KeyOrder == <<"command", "path", "timeout">>

SortedKeys(o) == SelectSeq(KeyOrder, LAMBDA k : k \in DOMAIN o)

\* The fraction digits of v + f/10000 in the shortest form, as %v prints a float64.
FracDigits(f) ==
    LET d1 == Lit(DigitChar(f \div 1000))
        d2 == Lit(DigitChar((f \div 100) % 10))
        d3 == Lit(DigitChar((f \div 10) % 10))
        d4 == Lit(DigitChar(f % 10))
    IN  IF f % 10 # 0 THEN CatAll(<<d1, d2, d3, d4>>)
        ELSE IF f % 100 # 0 THEN CatAll(<<d1, d2, d3>>)
        ELSE IF f % 1000 # 0 THEN CatAll(<<d1, d2>>)
        ELSE d1

\* fmt.Sprintf("%v", v) of a decoded interface{} value
RECURSIVE Sprint(_)
Sprint(v) ==
    CASE v.t = "null" -> Lit("<nil>")
      [] v.t = "string" -> v.s
      [] v.t = "number" ->
            IF v.f = 0 THEN Itoa(v.v)
            ELSE CatAll(<<Itoa(v.v), Lit("."), FracDigits(v.f)>>)
      [] v.t = "bool" -> IF v.b THEN Lit("true") ELSE Lit("false")
      [] v.t = "array" ->
            CatAll(<<Lit("["),
                     Join([i \in 1..Len(v.a) |-> Sprint(v.a[i])], Lit(" ")),
                     Lit("]")>>)
      [] v.t = "object" ->
            LET ks == SortedKeys(v.o)
            IN  CatAll(<<Lit("map["),
                         Join([i \in 1..Len(ks) |->
                                  CatAll(<<Lit(ks[i]), Lit(":"), Sprint(v.o[ks[i]])>>)],
                              Lit(" ")),
                         Lit("]")>>)

(***************************************************************************)
(* json.Unmarshal into a LogEntry.  A key that is absent or null leaves the *)
(* field at its zero value; a value of the wrong JSON type for a typed      *)
(* field makes Unmarshal return an error.  A nil pointer is the empty       *)
(* sequence and a non-nil pointer a sequence of one element; a nil map and  *)
(* an empty map are both the empty function.                                *)
(***************************************************************************)
StringOK(v) == v.t \in {"null", "string"}
IntOK(v) == v.t = "null" \/ (v.t = "number" /\ v.f = 0)
FloatOK(v) == v.t \in {"null", "number"}
BoolOK(v) == v.t \in {"null", "bool"}
MapOK(v) == v.t \in {"null", "object"}

StringVal(v) == IF v.t = "string" THEN v.s ELSE <<>>
IntVal(v) == IF v.t = "number" THEN v.v ELSE 0
\* a float64 amount, in units of 1/10000
FloatVal(v) == IF v.t = "number" THEN v.v * 10000 + v.f ELSE 0
BoolVal(v) == IF v.t = "bool" THEN v.b ELSE FALSE
MapVal(v) == IF v.t = "object" THEN v.o ELSE <<>>

CostFields == {"input", "output", "cacheRead", "cacheWrite", "total"}
UsageFields == {"input", "output", "cacheRead", "cacheWrite", "totalTokens"}

\* type Cost
CostOK(v) ==
    v.t = "null" \/ (v.t = "object" /\ \A k \in CostFields : FloatOK(Get(v.o, k)))

CostVal(v) ==
    IF v.t # "object" THEN <<>>
    ELSE <<[Input      |-> FloatVal(Get(v.o, "input")),
            Output     |-> FloatVal(Get(v.o, "output")),
            CacheRead  |-> FloatVal(Get(v.o, "cacheRead")),
            CacheWrite |-> FloatVal(Get(v.o, "cacheWrite")),
            Total      |-> FloatVal(Get(v.o, "total"))]>>

\* type Usage
UsageOK(v) ==
    v.t = "null"
    \/ (v.t = "object" /\ (\A k \in UsageFields : IntOK(Get(v.o, k)))
                       /\ CostOK(Get(v.o, "cost")))

UsageVal(v) ==
    IF v.t # "object" THEN <<>>
    ELSE <<[Input       |-> IntVal(Get(v.o, "input")),
            Output      |-> IntVal(Get(v.o, "output")),
            CacheRead   |-> IntVal(Get(v.o, "cacheRead")),
            CacheWrite  |-> IntVal(Get(v.o, "cacheWrite")),
            TotalTokens |-> IntVal(Get(v.o, "totalTokens")),
            Cost        |-> CostVal(Get(v.o, "cost"))]>>

\* type Message
MessageOK(v) ==
    v.t = "null"
    \/ (v.t = "object" /\ StringOK(Get(v.o, "role")) /\ UsageOK(Get(v.o, "usage")))

MessageVal(v) ==
    LET o == MapVal(v)
    IN  [Role    |-> StringVal(Get(o, "role")),
         Content |-> Get(o, "content"),
         Usage   |-> UsageVal(Get(o, "usage"))]

\* type LogEntry
LogEntryOK(v) ==
    v.t = "null"
    \/ (/\ v.t = "object"
        /\ MessageOK(Get(v.o, "message"))
        /\ \A k \in {"role", "ts", "model", "tool_id", "tool_name"} : StringOK(Get(v.o, k))
        /\ \A k \in {"in_tokens", "out_tokens"} : IntOK(Get(v.o, k))
        /\ FloatOK(Get(v.o, "cost_usd"))
        /\ \A k \in {"tool_input", "request"} : MapOK(Get(v.o, k))
        /\ BoolOK(Get(v.o, "is_error")))

LogEntryVal(v) ==
    LET o == MapVal(v)
    IN  [Message   |-> MessageVal(Get(o, "message")),
         Timestamp |-> Get(o, "timestamp"),
         Role      |-> StringVal(Get(o, "role")),
         Content   |-> Get(o, "content"),
         TS        |-> StringVal(Get(o, "ts")),
         Model     |-> StringVal(Get(o, "model")),
         InTokens  |-> IntVal(Get(o, "in_tokens")),
         OutTokens |-> IntVal(Get(o, "out_tokens")),
         CostUSD   |-> FloatVal(Get(o, "cost_usd")),
         ToolID    |-> StringVal(Get(o, "tool_id")),
         ToolName  |-> StringVal(Get(o, "tool_name")),
         ToolInput |-> MapVal(Get(o, "tool_input")),
         IsError   |-> BoolVal(Get(o, "is_error")),
         Request   |-> MapVal(Get(o, "request"))]

(***************************************************************************)
(* A line of the file: raw is "json" for a syntactically valid JSON         *)
(* document (val), "text" for any other non-blank text and "" for a line    *)
(* with no character but white space; ws tells whether white space          *)
(* surrounds it.                                                            *)
(***************************************************************************)
\* strings.TrimSpace(line) == ""
IsBlankLine(l) == l.raw = ""

\* json.Unmarshal([]byte(line), &entry): <<entry>>, or <<>> for an error
Unmarshal(l) ==
    IF l.raw = "json" /\ LogEntryOK(l.val) THEN <<LogEntryVal(l.val)>> ELSE <<>>

(***************************************************************************)
(* The ANSI colour codes and the program's literal texts, each one token.   *)
(* The symbols the program prints are written in ASCII: "---" for the       *)
(* heavy rule, "<bolt>", "<arrow>", "<cross>" and "<thought>" for the       *)
(* lightning bolt, the arrow, the ballot cross and the thought balloon.     *)
(***************************************************************************)
cyan == Lit("ESC[36m")
green == Lit("ESC[32m")
yellow == Lit("ESC[33m")
red == Lit("ESC[31m")
dim == Lit("ESC[2m")
bold == Lit("ESC[1m")
reset == Lit("ESC[0m")
magenta == Lit("ESC[35m")
blue == Lit("ESC[34m")

Ellipsis == Lit("U+2026")
Heartbeat == Lit("Read HEARTBEAT")

\* The thresholds and cut points of the truncations.
ArgMax == 80
ArgKeep == 77
RawArgMax == 150
ResultMax == 300
ResultKeep == 297
TextMax == 500
TextKeep == 200
SystemMax == 200
SystemKeep == 197
DirectMax == 100
KiloMin == 1000

\* blockMap["type"] == name
TypeIs(o, name) ==
    "type" \in DOMAIN o /\ o["type"].t = "string" /\ o["type"].s = Lit(name)

\* blockMap[key].(string)
IsString(o, key) == key \in DOMAIN o /\ o[key].t = "string"

\* The fragments extractText collects from a content sequence.
RECURSIVE TextParts(_)
TextParts(a) ==
    IF a = <<>> THEN <<>>
    ELSE LET b == Head(a)
             here == IF b.t = "object"
                     THEN IF TypeIs(b.o, "text") /\ IsString(b.o, "text")
                          THEN <<b.o["text"].s>> ELSE <<>>
                     ELSE IF b.t = "string" THEN <<b.s>> ELSE <<>>
         IN  here \o TextParts(Tail(a))

extractText(content) ==
    CASE content.t = "string" -> content.s
      [] content.t = "array" -> Join(TextParts(content.a), Lit("\n"))
      [] content.t = "null" -> <<>>
      [] OTHER -> Sprint(content)

\* The key=value summary of an argument map, its keys visited in the order ks.
ArgSummary(args, ks) ==
    Join([i \in 1..Len(ks) |->
             LET vStr == Sprint(args[ks[i]])
             IN  CatAll(<<Lit(ks[i]), Lit("="),
                          IF ByteLen(vStr) > ArgMax
                          THEN Cat(Slice(vStr, ArgKeep), Ellipsis) ELSE vStr>>)],
         Lit(", "))

\* The line of one tool call.
ToolCallLine(name, argsStr) ==
    CatAll(<<Lit("  "), magenta, Lit("<bolt> "), name, reset,
             Lit("("), dim, argsStr, reset, Lit(")")>>)

\* One toolCall block of extractToolCalls; ks is the order in which the range
\* over its arguments visits the keys.
ToolCallOf(o, ks) ==
    LET name == IF IsString(o, "name") THEN o["name"].s ELSE Lit("?")
        argsStr ==
            IF "arguments" \in DOMAIN o /\ o["arguments"].t = "object"
            THEN ArgSummary(o["arguments"].o, ks)
            ELSE IF "arguments" \in DOMAIN o
                 THEN LET raw == Sprint(o["arguments"])
                      IN  IF ByteLen(raw) > RawArgMax THEN Slice(raw, RawArgMax) ELSE raw
                 ELSE <<>>
    IN  ToolCallLine(name, argsStr)

\* ToolCallsFrom passing over a toolCall block that has no name.
RECURSIVE ToolCallsFromNamedOnly(_, _, _)
ToolCallsFromNamedOnly(a, i, ord) ==
    IF i > Len(a) THEN <<>>
    ELSE (IF a[i].t = "object" /\ TypeIs(a[i].o, "toolCall") /\ IsString(a[i].o, "name")
          THEN <<ToolCallOf(a[i].o, ord[i + 1])>> ELSE <<>>)
         \o ToolCallsFromNamedOnly(a, i + 1, ord)

\* extractToolCalls over the elements i..Len(a) of a; ord[i + 1] is the key
\* order of element i's range loop.
RECURSIVE ToolCallsFrom(_, _, _)
ToolCallsFrom(a, i, ord) ==
    IF i > Len(a) THEN <<>>
    ELSE (IF a[i].t = "object" /\ TypeIs(a[i].o, "toolCall")
          THEN <<ToolCallOf(a[i].o, ord[i + 1])>> ELSE <<>>)
         \o ToolCallsFrom(a, i + 1, ord)

extractToolCalls(content, ord) ==
    IF content.t # "array" THEN <<>> ELSE ToolCallsFrom(content.a, 1, ord)

\* The text fields of the elements of a toolResult block's nested content.
RECURSIVE NestedTexts(_)
NestedTexts(a) ==
    IF a = <<>> THEN <<>>
    ELSE (IF Head(a).t = "object" /\ IsString(Head(a).o, "text")
          THEN <<Head(a).o["text"].s>> ELSE <<>>)
         \o NestedTexts(Tail(a))

\* The text extractToolResults resolves for one toolResult block.
ResultText(o) ==
    IF IsString(o, "text") THEN o["text"].s
    ELSE IF "content" \in DOMAIN o
         THEN IF o["content"].t = "array"
              THEN Join(NestedTexts(o["content"].a), Lit(" "))
              ELSE Sprint(o["content"])
         ELSE <<>>

\* TruncateResult guarded by the threshold of the system role.
TruncateResultSystemGuard(text) ==
    IF ByteLen(text) > 200 THEN Cat(Slice(text, 297), Lit("U+2026")) ELSE text

\* if len(text) > 300 { text = text[:297] + ellipsis }
TruncateResult(text) ==
    IF ByteLen(text) > ResultMax THEN Cat(Slice(text, ResultKeep), Ellipsis) ELSE text

ResultLine(text) == CatAll(<<Lit("  "), dim, Lit("<arrow> "), text, reset>>)

RECURSIVE extractToolResultsFrom(_)
extractToolResultsFrom(a) ==
    IF a = <<>> THEN <<>>
    ELSE (IF Head(a).t = "object" /\ TypeIs(Head(a).o, "toolResult")
          THEN LET text == TruncateResult(ResultText(Head(a).o))
               IN  IF TrimSpace(text) # <<>> THEN <<ResultLine(text)>> ELSE <<>>
          ELSE <<>>)
         \o extractToolResultsFrom(Tail(a))

extractToolResults(content) ==
    IF content.t # "array" THEN <<>> ELSE extractToolResultsFrom(content.a)

(***************************************************************************)
(* The usage and cost formatters.  %.1f and %.2f round the float64 to the   *)
(* nearest decimal; where the decimal value lies exactly half way, the      *)
(* float64 nearest to it decides, and the tables below list the half-way    *)
(* values below 10000 whose float64 prints rounded up.                      *)
(***************************************************************************)
KiloTiesUp ==
    {1050, 1350, 1550, 1750, 1850, 2350, 2450, 2750, 2850, 2950, 3350, 3450,
     3750, 3850, 3950, 4150, 4450, 4650, 4750, 4950, 5150, 5450, 5650, 5750,
     5950, 6150, 6450, 6650, 6750, 6950, 7150, 7450, 7650, 7750, 7950, 8050,
     8150, 8550, 8650, 8750, 9050, 9150, 9550, 9650, 9750}

CentTiesUp ==
    {50, 250, 350, 550, 650, 850, 950, 1150, 1350, 1650, 1950, 2250, 2550,
     2650, 2750, 3150, 3250, 3350, 3750, 3850, 3950, 4050, 4450, 4550, 4650,
     5050, 5150, 5250, 5350, 5450, 5550, 6350, 6450, 6550, 6650, 6750, 6850,
     7550, 7650, 7750, 7850, 7950, 8050, 8750, 8850, 8950, 9050, 9150, 9250,
     9350}

\* n/100 rounded to the nearest integer as the float64 formatting rounds it
RoundHundredth(n, tiesUp) ==
    n \div 100 + (IF n % 100 > 50 \/ (n % 100 = 50 /\ n \in tiesUp) THEN 1 ELSE 0)

\* formatNumber cutting the digits after the first decimal off.
formatNumberFloor(n) ==
    IF n >= KiloMin
    THEN LET t == n \div 100
         IN  CatAll(<<Itoa(t \div 10), Lit("."), Lit(DigitChar(t % 10)), Lit("k")>>)
    ELSE Itoa(n)

formatNumber(n) ==
    IF n >= KiloMin
    THEN LET t == RoundHundredth(n, KiloTiesUp)
         IN  CatAll(<<Itoa(t \div 10), Lit("."), Lit(DigitChar(t % 10)), Lit("k")>>)
    ELSE Itoa(n)

\* cost is in units of 1/10000 dollar
formatCost(cost) ==
    LET t == RoundHundredth(cost, CentTiesUp)
    IN  CatAll(<<Lit("$"), Itoa(t \div 100), Lit("."),
                 Lit(DigitChar((t \div 10) % 10)), Lit(DigitChar(t % 10))>>)

\* formatTokenUsage returning nothing when either count is zero.
formatTokenUsageEitherZero(usage) ==
    IF usage = <<>> \/ usage[1].TotalTokens = 0 \/ usage[1].Output = 0 THEN <<>>
    ELSE LET costStr == IF usage[1].Cost # <<>> /\ usage[1].Cost[1].Total > 0
                        THEN Cat(Lit(" | "), formatCost(usage[1].Cost[1].Total))
                        ELSE <<>>
         IN  CatAll(<<Lit(" "), dim, Lit("ctx: "), formatNumber(usage[1].TotalTokens),
                      Lit(" | out: "), Itoa(usage[1].Output), costStr, reset>>)

formatTokenUsage(usage) ==
    IF usage = <<>> \/ (usage[1].TotalTokens = 0 /\ usage[1].Output = 0) THEN <<>>
    ELSE LET costStr == IF usage[1].Cost # <<>> /\ usage[1].Cost[1].Total > 0
                        THEN Cat(Lit(" | "), formatCost(usage[1].Cost[1].Total))
                        ELSE <<>>
         IN  CatAll(<<Lit(" "), dim, Lit("ctx: "), formatNumber(usage[1].TotalTokens),
                      Lit(" | out: "), Itoa(usage[1].Output), costStr, reset>>)

(***************************************************************************)
(* normalizeEntry: the (role, content, usage, timestamp) of an entry.       *)
(***************************************************************************)
\* InberUsage with the output tokens added into the total.
InberUsageSum(entry) ==
    IF entry.InTokens > 0 \/ entry.OutTokens > 0
    THEN <<[Input       |-> entry.InTokens,
            Output      |-> entry.OutTokens,
            CacheRead   |-> 0,
            CacheWrite  |-> 0,
            TotalTokens |-> entry.InTokens + entry.OutTokens,
            Cost        |-> IF entry.CostUSD > 0
                            THEN <<[Input |-> 0, Output |-> 0, CacheRead |-> 0,
                                    CacheWrite |-> 0, Total |-> entry.CostUSD]>>
                            ELSE <<>>]>>
    ELSE <<>>

\* The usage built from the flat fields of an entry.
InberUsage(entry) ==
    IF entry.InTokens > 0 \/ entry.OutTokens > 0
    THEN <<[Input       |-> entry.InTokens,
            Output      |-> entry.OutTokens,
            CacheRead   |-> 0,
            CacheWrite  |-> 0,
            TotalTokens |-> entry.InTokens,
            Cost        |-> IF entry.CostUSD > 0
                            THEN <<[Input |-> 0, Output |-> 0, CacheRead |-> 0,
                                    CacheWrite |-> 0, Total |-> entry.CostUSD]>>
                            ELSE <<>>]>>
    ELSE <<>>

\* IsInber with the test of message.role left out.
IsInberTopOnly(entry) == entry.Role # <<>>

\* entry.Role != "" && entry.Message.Role == ""
IsInber(entry) == entry.Role # <<>> /\ entry.Message.Role = <<>>

\* normalizeEntry with the flat branch falling back to the timestamp field.
normalizeEntryFlatFallback(entry) ==
    IF IsInber(entry)
    THEN [role    |-> entry.Role,
          content |-> entry.Content,
          usage   |-> InberUsage(entry),
          ts      |-> IF entry.TS # <<>> THEN JStr(entry.TS) ELSE entry.Timestamp]
    ELSE [role    |-> entry.Message.Role,
          content |-> entry.Message.Content,
          usage   |-> entry.Message.Usage,
          ts      |-> IF entry.TS # <<>> THEN JStr(entry.TS)
                      ELSE IF entry.Timestamp # JNull THEN entry.Timestamp
                      ELSE JNull]

normalizeEntry(entry) ==
    IF IsInber(entry)
    THEN [role    |-> entry.Role,
          content |-> entry.Content,
          usage   |-> InberUsage(entry),
          ts      |-> JStr(entry.TS)]
    ELSE [role    |-> entry.Message.Role,
          content |-> entry.Message.Content,
          usage   |-> entry.Message.Usage,
          ts      |-> IF entry.TS # <<>> THEN JStr(entry.TS)
                      ELSE IF entry.Timestamp # JNull THEN entry.Timestamp
                      ELSE JNull]

(***************************************************************************)
(* The timestamp of a line.  The strings time.Parse accepts as RFC 3339     *)
(* are the tokens of RFC3339Clock, with the wall-clock time each formats    *)
(* to; a number is Unix seconds, printed here in UTC (a value above 1e12,   *)
(* which the program divides by 1000, is beyond the integers of the model). *)
(***************************************************************************)
RFC3339Clock ==
    "2024-02-24T10:30:00Z" :> "10:30:00" @@ "2024-02-24T10:30:01.5Z" :> "10:30:01"

TwoDigits(n) == Cat(Lit(DigitChar(n \div 10)), Lit(DigitChar(n % 10)))

UnixClock(sec) ==
    CatAll(<<TwoDigits((sec \div 3600) % 24), Lit(":"),
             TwoDigits((sec \div 60) % 60), Lit(":"), TwoDigits(sec % 60)>>)

formatTs(tsValue) ==
    CASE tsValue.t = "string" ->
            IF tsValue.s = <<>> THEN <<>>
            ELSE IF Len(tsValue.s) = 1 /\ tsValue.s[1].n = 1
                    /\ tsValue.s[1].c \in DOMAIN RFC3339Clock
                 THEN CatAll(<<Lit(" "), dim, Lit(RFC3339Clock[tsValue.s[1].c]), reset>>)
                 ELSE CatAll(<<Lit(" "), dim, tsValue.s, reset>>)
      [] tsValue.t = "number" ->
            CatAll(<<Lit(" "), dim, UnixClock(tsValue.v), reset>>)
      [] OTHER -> <<>>

(***************************************************************************)
(* processLine.  Go visits the keys of a map in an order that differs from  *)
(* one range loop to the next: ord gives the order of each range loop of a  *)
(* call, ord[1] for entry.ToolInput and ord[i + 1] for the arguments of    *)
(* the i-th element of the content.                                         *)
(***************************************************************************)
EmptyLine == [Output |-> <<>>, Usage |-> <<>>]

OutputOnly(out) == [Output |-> out, Usage |-> <<>>]

\* The marker that follows a shortened text: "\n  ... (N chars)".
TruncMarker(n) ==
    CatAll(<<Lit("\n"), Lit("  "), dim, Ellipsis, Lit(" ("), Itoa(n), Lit(" chars)"), reset>>)

\* if len(text) > 500 { text = text[:200] + marker }
TruncateText(text) ==
    IF ByteLen(text) > TextMax
    THEN Cat(Slice(text, TextKeep), TruncMarker(ByteLen(text)))
    ELSE text

\* requestLine printing the request whatever the flag.
requestLineAlways(ts, verbose) ==
    OutputOnly(CatAll(<<Lit("\n"), blue, dim, Lit("[request]"), ts, reset>>))

requestLine(ts, verbose) ==
    IF verbose
    THEN OutputOnly(CatAll(<<Lit("\n"), blue, dim, Lit("[request]"), ts, reset>>))
    ELSE EmptyLine

\* The header and body of a thinking block.
ThinkingBlock(ts, body) ==
    CatAll(<<Lit("\n"), yellow, bold, Lit("<thought> Thinking"), ts, Lit(" ---"), reset,
             Lit("\n"), dim, body, reset>>)

thinkingLine(content, ts) ==
    LET text == extractText(content)
    IN  IF text # <<>> THEN OutputOnly(ThinkingBlock(ts, TruncateText(text)))
        ELSE EmptyLine

toolCallLine(entry, ks) ==
    LET name == IF entry.ToolName = <<>> THEN Lit("?") ELSE entry.ToolName
        argsStr == IF DOMAIN entry.ToolInput # {}
                   THEN ArgSummary(entry.ToolInput, ks) ELSE <<>>
    IN  OutputOnly(ToolCallLine(name, argsStr))

\* The line of a tool result that is an error.
ErrorLine(text) == CatAll(<<Lit("  "), red, Lit("<cross> "), text, reset>>)

toolResultLine(entry, content) ==
    LET text == extractText(content)
        lineCount == CountNewlines(text) + 1
        byteCount == ByteLen(text)
    IN  IF entry.IsError
        THEN OutputOnly(ErrorLine(TruncateResult(text)))
        ELSE IF byteCount > 0
             THEN IF lineCount = 1 /\ byteCount < DirectMax
                  THEN OutputOnly(ResultLine(text))
                  ELSE OutputOnly(CatAll(<<Lit("  "), dim, Lit("<arrow> "),
                                           Itoa(lineCount), Lit(" lines, "),
                                           Itoa(byteCount), Lit(" bytes"), reset>>))
             ELSE EmptyLine

\* The header and body of a user block.
UserBlock(ts, body) ==
    CatAll(<<Lit("\n"), cyan, bold, Lit("--- You"), ts, Lit(" ---"), reset,
             Lit("\n"), cyan, body, reset>>)

userLine(content, ts) ==
    LET text == extractText(content)
    IN  IF text # <<>> /\ ~HasPrefix(text, Heartbeat)
        THEN OutputOnly(UserBlock(ts, TruncateText(text)))
        ELSE EmptyLine

\* The header line of an assistant message.
AgentHeader(ts, tokens) ==
    CatAll(<<Lit("\n"), green, bold, Lit("--- Agent"), ts, tokens, Lit(" ---"), reset>>)

\* assistantLine printing the tool calls of a message without text under no
\* header.
assistantLineBareCalls(content, usage, ts, ord) ==
    LET text == extractText(content)
        tokens == formatTokenUsage(usage)
        textPart == IF TrimSpace(text) # <<>>
                    THEN <<CatAll(<<AgentHeader(ts, tokens), Lit("\n"), green, text, reset>>)>>
                    ELSE <<>>
        parts == textPart \o extractToolCalls(content, ord)
    IN  IF Len(parts) > 0
        THEN [Output |-> Join(parts, Lit("\n")), Usage |-> usage]
        ELSE EmptyLine

\* assistantLine returning the usage also when it has nothing to print.
assistantLineKeepsUsage(content, usage, ts, ord) ==
    LET text == extractText(content)
        tokens == formatTokenUsage(usage)
        textPart == IF TrimSpace(text) # <<>>
                    THEN <<CatAll(<<AgentHeader(ts, tokens), Lit("\n"), green, text, reset>>)>>
                    ELSE <<>>
        toolCalls == extractToolCalls(content, ord)
        parts == IF Len(toolCalls) > 0
                 THEN (IF textPart = <<>> THEN <<AgentHeader(ts, tokens)>> ELSE textPart)
                      \o toolCalls
                 ELSE textPart
    IN  [Output |-> Join(parts, Lit("\n")), Usage |-> usage]

assistantLine(content, usage, ts, ord) ==
    LET text == extractText(content)
        tokens == formatTokenUsage(usage)
        textPart == IF TrimSpace(text) # <<>>
                    THEN <<CatAll(<<AgentHeader(ts, tokens), Lit("\n"), green, text, reset>>)>>
                    ELSE <<>>
        toolCalls == extractToolCalls(content, ord)
        parts == IF Len(toolCalls) > 0
                 THEN (IF textPart = <<>> THEN <<AgentHeader(ts, tokens)>> ELSE textPart)
                      \o toolCalls
                 ELSE textPart
    IN  IF Len(parts) > 0
        THEN [Output |-> Join(parts, Lit("\n")), Usage |-> usage]
        ELSE EmptyLine

toolLine(content) ==
    LET results == extractToolResults(content)
        text == extractText(content)
    IN  IF Len(results) > 0 THEN OutputOnly(Join(results, Lit("\n")))
        ELSE IF TrimSpace(text) # <<>> THEN OutputOnly(ResultLine(TruncateResult(text)))
        ELSE EmptyLine

systemLine(content, ts) ==
    LET text == extractText(content)
    IN  IF TrimSpace(text) # <<>>
        THEN OutputOnly(CatAll(<<Lit("\n"), blue, dim, Lit("[system]"), ts, Lit(" "),
                                 IF ByteLen(text) > SystemMax
                                 THEN Cat(Slice(text, SystemKeep), Ellipsis) ELSE text,
                                 reset>>))
        ELSE EmptyLine

\* switch role { ... }
renderRole(entry, n, verbose, ord) ==
    LET ts == formatTs(n.ts)
    IN  CASE n.role = Lit("request") -> requestLine(ts, verbose)
          [] n.role = Lit("thinking") -> thinkingLine(n.content, ts)
          [] n.role = Lit("tool_call") -> toolCallLine(entry, ord[1])
          [] n.role = Lit("tool_result") -> toolResultLine(entry, n.content)
          [] n.role = Lit("user") -> userLine(n.content, ts)
          [] n.role = Lit("assistant") -> assistantLine(n.content, n.usage, ts, ord)
          [] n.role = Lit("tool") -> toolLine(n.content)
          [] n.role = Lit("system") -> systemLine(n.content, ts)
          [] OTHER -> EmptyLine

\* One call of processLine: the entry it decoded (none on an early return), the
\* normalised tuple (none on an early return) and the ProcessedLine it returns.
processLine(l, verbose, ord) ==
    IF IsBlankLine(l)
    THEN [entry |-> <<>>, norm |-> <<>>, res |-> EmptyLine]
    ELSE LET decoded == Unmarshal(l)
         IN  IF decoded = <<>>
             THEN [entry |-> <<>>, norm |-> <<>>, res |-> EmptyLine]
             ELSE LET n == normalizeEntry(decoded[1])
                  IN  [entry |-> decoded,
                       norm  |-> <<n>>,
                       res   |-> IF n.role = <<>> THEN EmptyLine
                                 ELSE renderRole(decoded[1], n, verbose, ord)]

(***************************************************************************)
(* The lines the model reads.                                               *)
(***************************************************************************)
A(n) == Run("a", n)
B(n) == Run("b", n)
Accented(n) == Run("U+00E9", n)

\* Texts around every threshold of the program, in one-byte and two-byte
\* characters, blank, multi-line and heartbeat.
Texts ==
    {<<>>, Run(" ", 3), A(2), A(99), A(100), A(200), A(201), A(300), A(301),
     A(400), A(500), A(501), A(600), Accented(150), Accented(200), Accented(300),
     Cat(A(1), Accented(300)), CatAll(<<A(2), Lit("\n"), A(3)>>),
     Cat(Heartbeat, A(3))}

TextBlock(t) == JObj("type" :> JStr(Lit("text")) @@ "text" :> JStr(t))
ToolCall(name, args) ==
    JObj("type" :> JStr(Lit("toolCall")) @@ "name" :> JStr(Lit(name)) @@ "arguments" :> args)
ToolResult(t) == JObj("type" :> JStr(Lit("toolResult")) @@ "text" :> JStr(t))
ToolResultOf(c) == JObj("type" :> JStr(Lit("toolResult")) @@ "content" :> c)

OneArg == JObj("command" :> JStr(A(2)))
TwoArgs == JObj("command" :> JStr(A(2)) @@ "path" :> JStr(B(3)))
LongArg == JObj("command" :> JStr(A(81)))
MixedArgs == JObj("command" :> JNum(7) @@ "path" :> JNull @@ "timeout" :> JBool(TRUE))

Sequences ==
    {JArr(<<>>),
     JArr(<<TextBlock(A(2))>>),
     JArr(<<TextBlock(Run(" ", 3))>>),
     JArr(<<JStr(A(2)), TextBlock(B(3)), JNum(7)>>),
     JArr(<<TextBlock(A(2)), ToolCall("exec", OneArg)>>),
     JArr(<<ToolCall("exec", TwoArgs)>>),
     JArr(<<TextBlock(Run(" ", 3)), ToolCall("exec", OneArg)>>),
     JArr(<<ToolCall("read", OneArg), TextBlock(A(2)), ToolCall("exec", TwoArgs)>>),
     JArr(<<ToolCall("exec", JStr(A(151)))>>),
     JArr(<<ToolCall("exec", JNull)>>),
     JArr(<<ToolCall("exec", LongArg)>>),
     JArr(<<JObj("type" :> JStr(Lit("toolCall")))>>),
     JArr(<<ToolResult(A(2))>>),
     JArr(<<ToolResult(A(300))>>),
     JArr(<<ToolResult(A(400))>>),
     JArr(<<ToolResult(Accented(200))>>),
     JArr(<<ToolResult(Run(" ", 3))>>),
     JArr(<<ToolResult(<<>>), ToolResult(A(2)), TextBlock(B(3))>>),
     JArr(<<ToolResultOf(JArr(<<JObj("text" :> JStr(A(2))), JStr(A(3)),
                                 JObj("text" :> JStr(B(3)))>>))>>),
     JArr(<<ToolResultOf(JNum(42))>>),
     JArr(<<ToolResultOf(JNull)>>),
     JArr(<<JObj("type" :> JStr(Lit("toolResult")))>>)}

Contents ==
    {JStr(t) : t \in Texts} \cup Sequences
    \cup {JNull, JNum(42), JFrac(1, 5000), JBool(TRUE), JObj("path" :> JStr(A(2)))}

Roles ==
    {"user", "assistant", "tool", "system", "thinking", "tool_call", "tool_result",
     "request"}

\* an object with the keys of o whose value is given (an absent key is left out)
Given(o) == [k \in {x \in DOMAIN o : o[x] # <<>>} |-> o[k][1]]
Absent == <<>>
Present(v) == <<v>>

FlatTokens == "in_tokens" :> JNum(100) @@ "out_tokens" :> JNum(20) @@ "cost_usd" :> JFrac(0, 123)
SomeUsage ==
    JObj("input" :> JNum(3) @@ "output" :> JNum(196) @@ "totalTokens" :> JNum(85178)
         @@ "cost" :> JObj("total" :> JFrac(0, 4834)))

Json(o) == [ws |-> FALSE, raw |-> "json", val |-> JObj(o)]

\* Every role in both formats with every content; the flat records carry token
\* fields and the nested ones a usage.
RenderLines ==
    {Json("role" :> JStr(Lit(r)) @@ "content" :> c @@ FlatTokens) :
        r \in Roles, c \in Contents}
    \cup {Json("message" :> JObj("role" :> JStr(Lit(r)) @@ "content" :> c
                                 @@ "usage" :> SomeUsage)) :
            r \in Roles, c \in Contents}
    \cup {Json("role" :> JStr(Lit("tool_result")) @@ "content" :> c
               @@ "is_error" :> JBool(TRUE)) : c \in Contents}

\* Both role fields, each absent, empty, recognised or not, with the flat token
\* fields and the nested usage present or not.
TopRoles == {Absent} \cup {Present(JStr(<<>>))}
            \cup {Present(JStr(Lit(r))) :
                    r \in {"user", "assistant", "thinking", "tool_call", "User"}}
MessageRoles == {Absent} \cup {Present(JStr(<<>>))}
                \cup {Present(JStr(Lit(r))) :
                        r \in {"user", "assistant", "tool", "thinking", "request",
                               "Assistant"}}
TokenFields ==
    {<<>>,
     "in_tokens" :> JNum(5),
     "out_tokens" :> JNum(7),
     "in_tokens" :> JNum(5) @@ "out_tokens" :> JNum(7) @@ "cost_usd" :> JFrac(0, 123),
     "in_tokens" :> JNum(0) @@ "out_tokens" :> JNum(0) @@ "cost_usd" :> JFrac(0, 123),
     "in_tokens" :> JNum(0 - 5) @@ "out_tokens" :> JNum(0) @@ "cost_usd" :> JFrac(0, 123)}
MessageUsages ==
    {Absent, Present(SomeUsage),
     Present(JObj("input" :> JNum(0 - 3) @@ "totalTokens" :> JNum(0)))}

MixedLines ==
    {Json(Given("role" :> tr @@ "content" :> Present(JStr(A(2)))
                @@ "ts" :> Present(JStr(Lit("2024-02-24T10:30:00Z")))
                @@ "timestamp" :> Present(JNum(1640000000))
                @@ "message" :> Present(JObj(Given("role" :> mr
                                                   @@ "content" :> Present(JStr(B(3)))
                                                   @@ "usage" :> mu))))
          @@ tf) :
        tr \in TopRoles, mr \in MessageRoles, tf \in TokenFields, mu \in MessageUsages}

\* tool_call records: the tool name and input absent, empty or given.
ToolCallLines ==
    {Json(Given("tool_name" :> tn @@ "tool_input" :> ti) @@ role) :
        tn \in {Absent, Present(JStr(<<>>)), Present(JStr(Lit("shell")))},
        ti \in {Absent, Present(JObj(<<>>)), Present(OneArg), Present(TwoArgs),
                Present(LongArg), Present(MixedArgs)},
        role \in {"role" :> JStr(Lit("tool_call")),
                  "message" :> JObj("role" :> JStr(Lit("tool_call")))}}

\* The two timestamp fields, each absent or given in several forms.
TimestampLines ==
    {Json(Given("ts" :> ts @@ "timestamp" :> tm) @@ rc) :
        ts \in {Absent, Present(JStr(<<>>)), Present(JStr(Lit("2024-02-24T10:30:00Z"))),
                Present(JStr(Lit("yesterday")))},
        tm \in {Absent, Present(JNum(1640000000)),
                Present(JStr(Lit("2024-02-24T10:30:01.5Z"))), Present(JBool(TRUE))},
        rc \in {"role" :> JStr(Lit(r)) @@ "content" :> JStr(A(2)) : r \in {"user", "request"}}
               \cup {"message" :> JObj("role" :> JStr(Lit(r)) @@ "content" :> JStr(A(2))) :
                        r \in {"user", "request"}}}

\* Blank lines, lines that are no JSON, JSON documents that are no object and
\* objects with a field of the wrong type.
Malformed ==
    {[ws |-> w, raw |-> "", val |-> JNull] : w \in BOOLEAN}
    \cup {[ws |-> w, raw |-> "text", val |-> JNull] : w \in BOOLEAN}
    \cup {[ws |-> FALSE, raw |-> "json", val |-> v] :
            v \in {JNull, JArr(<<>>), JNum(7), JStr(A(2)), JBool(TRUE)}}
    \cup {[ws |-> TRUE, raw |-> "json",
           val |-> JObj("role" :> JStr(Lit("user")) @@ "content" :> JStr(A(2)))]}
    \cup {Json(bad @@ "role" :> JStr(Lit("user")) @@ "content" :> JStr(A(2))) :
            bad \in {"ts" :> JNum(1640000000),
                     "in_tokens" :> JStr(Lit("5")),
                     "in_tokens" :> JFrac(1, 5000),
                     "cost_usd" :> JStr(Lit("0.5")),
                     "tool_input" :> JStr(A(2)),
                     "is_error" :> JStr(Lit("true")),
                     "request" :> JArr(<<>>),
                     "message" :> JStr(A(2)),
                     "message" :> JObj("usage" :> JNum(7)),
                     "message" :> JObj("usage" :> JObj("cost" :> JNum(7))),
                     "message" :> JObj("usage" :> JObj("input" :> JStr(Lit("3")))),
                     "role" :> JNum(7),
                     "model" :> JNull}}

Lines == RenderLines \cup MixedLines \cup ToolCallLines \cup TimestampLines \cup Malformed

(***************************************************************************)
(* The orders in which one call of processLine may visit the keys of the    *)
(* maps it ranges over.                                                     *)
(***************************************************************************)
Perms(S) ==
    {p \in [1..Cardinality(S) -> S] : \A i, j \in 1..Cardinality(S) : p[i] = p[j] => i = j}

\* The maps the range loops of a call on line l visit: entry.ToolInput first,
\* then the arguments of each element of the content.
RangedMaps(l) ==
    LET decoded == Unmarshal(l)
        content == normalizeEntry(decoded[1]).content
        argsOf(b) == IF b.t = "object" /\ "arguments" \in DOMAIN b.o
                        /\ b.o["arguments"].t = "object"
                     THEN b.o["arguments"].o ELSE <<>>
    IN  IF decoded = <<>> THEN <<>>
        ELSE <<decoded[1].ToolInput>>
             \o (IF content.t = "array"
                 THEN [i \in 1..Len(content.a) |-> argsOf(content.a[i])] ELSE <<>>)

RECURSIVE KeyOrders(_)
KeyOrders(maps) ==
    IF maps = <<>> THEN {<<>>}
    ELSE {<<p>> \o rest : p \in Perms(DOMAIN Head(maps)), rest \in KeyOrders(Tail(maps))}

(***************************************************************************)
(* The state machine.                                                       *)
(***************************************************************************)
MaxCalls == 2

\* No helper is called on its own.
NoCall == [fn |-> "none"]

\* streamFile is not running.
StreamIdle ==
    /\ file = <<>> /\ offset = 0 /\ follow = FALSE /\ tail = 0 /\ pc = "idle"
    /\ pending = <<>> /\ processed = <<>> /\ printed = <<>>
    /\ totalContext = 0 /\ totalOutput = 0 /\ totalCost = 0

Init ==
    /\ line \in Lines
    /\ verboseMode = FALSE
    /\ calls = <<>>
    /\ arg = NoCall
    /\ ret = <<>>
    /\ StreamIdle

\* result := processLine(line)
ProcessLine ==
    /\ Len(calls) < MaxCalls
    /\ \E ord \in KeyOrders(RangedMaps(line)) :
          calls' = Append(calls, [verbose |-> verboseMode]
                                 @@ processLine(line, verboseMode, ord))
    /\ UNCHANGED <<line, verboseMode, helperVars, streamVars>>

\* verboseMode = *verbose
SetVerbose ==
    /\ verboseMode' = ~verboseMode
    /\ UNCHANGED <<line, calls, helperVars, streamVars>>

Next == ProcessLine \/ SetVerbose

Spec == Init /\ [][Next]_vars

(***************************************************************************)
(* The extractors and formatters called on their own.                       *)
(***************************************************************************)
MaxNumber == 9998

\* The elements a content sequence is built from.
Elements ==
    {TextBlock(A(2)), JStr(B(3)), JNum(7), ToolCall("exec", OneArg),
     ToolCall("read", TwoArgs), JObj("type" :> JStr(Lit("toolCall"))),
     ToolResult(A(2)), ToolResult(Run(" ", 3)), ToolResult(Run(" ", 301)),
     ToolResultOf(JArr(<<JObj("text" :> JStr(A(2))), JObj("text" :> JStr(B(3)))>>)),
     ToolResultOf(JNum(42)), JObj("type" :> JStr(Lit("toolResult")))}

\* Every content of the line processor's inputs and every sequence of up to
\* two elements.
HelperContents ==
    Contents \cup {JArr(<<x>>) : x \in Elements}
             \cup {JArr(<<x, y>>) : x, y \in Elements}
             \cup {JArr(<<ToolCall("exec", OneArg), x, ToolCall("read", OneArg)>>) :
                     x \in Elements}

HelperCosts ==
    {<<>>} \cup {<<[Input |-> 0, Output |-> 0, CacheRead |-> 0, CacheWrite |-> 0,
                    Total |-> t]>> : t \in {0 - 100, 0, 1, 49, 50, 4834, 129900}}

HelperUsages ==
    {<<>>} \cup {<<[Input |-> 3, Output |-> o, CacheRead |-> 0, CacheWrite |-> 0,
                    TotalTokens |-> t, Cost |-> c]>> :
                   o \in {0 - 1, 0, 196}, t \in {0 - 5, 0, 999, 1000, 85178},
                   c \in HelperCosts}

HelperNumbers == 0..MaxNumber \cup {85178, 100000}

HelperCalls ==
    {[fn |-> "extractToolCalls", content |-> c] : c \in HelperContents}
    \cup {[fn |-> "extractToolResults", content |-> c] : c \in HelperContents}
    \cup {[fn |-> "formatTokenUsage", usage |-> u] : u \in HelperUsages}
    \cup {[fn |-> "formatNumber", n |-> n] : n \in HelperNumbers}

\* The key orders of the range loops of extractToolCalls(content).
ContentOrders(content) ==
    LET argsOf(b) == IF b.t = "object" /\ "arguments" \in DOMAIN b.o
                        /\ b.o["arguments"].t = "object"
                     THEN b.o["arguments"].o ELSE <<>>
    IN  KeyOrders(<<<<>>>> \o (IF content.t = "array"
                               THEN [i \in 1..Len(content.a) |-> argsOf(content.a[i])]
                               ELSE <<>>))

InitHelpers ==
    /\ arg \in HelperCalls
    /\ ret = <<>>
    /\ line = [ws |-> FALSE, raw |-> "", val |-> JNull]
    /\ verboseMode = FALSE
    /\ calls = <<>>
    /\ StreamIdle

\* calls := extractToolCalls(content)
ExtractToolCalls ==
    /\ arg.fn = "extractToolCalls" /\ ret = <<>>
    /\ \E ord \in ContentOrders(arg.content) :
          ret' = <<extractToolCalls(arg.content, ord)>>
    /\ UNCHANGED <<line, verboseMode, calls, arg, streamVars>>

\* results := extractToolResults(content)
ExtractToolResults ==
    /\ arg.fn = "extractToolResults" /\ ret = <<>>
    /\ ret' = <<extractToolResults(arg.content)>>
    /\ UNCHANGED <<line, verboseMode, calls, arg, streamVars>>

\* tokens := formatTokenUsage(usage)
FormatTokenUsage ==
    /\ arg.fn = "formatTokenUsage" /\ ret = <<>>
    /\ ret' = <<formatTokenUsage(arg.usage)>>
    /\ UNCHANGED <<line, verboseMode, calls, arg, streamVars>>

\* formatNumber(n)
FormatNumber ==
    /\ arg.fn = "formatNumber" /\ ret = <<>>
    /\ ret' = <<formatNumber(arg.n)>>
    /\ UNCHANGED <<line, verboseMode, calls, arg, streamVars>>

NextHelpers ==
    ExtractToolCalls \/ ExtractToolResults \/ FormatTokenUsage \/ FormatNumber

SpecHelpers == InitHelpers /\ [][NextHelpers]_vars

(***************************************************************************)
(* streamFile.  The file is a sequence of chunks, each one write of the     *)
(* writer: a whole line with its newline, the head of a line (a proper      *)
(* prefix of its text, no newline yet) or the rest of the line whose head   *)
(* was written before.  A bufio.Scanner reads all that is unread (it is     *)
(* taken to fit the 64 KB of one Read) and splits it at the newlines; at    *)
(* the end of the file it returns what is left as a last line.  A scanner   *)
(* error (a line above 10 MB) is beyond the lines of the model, so the      *)
(* follow loop has no exit.                                                 *)
(***************************************************************************)
MaxFile == 3
MaxTail == 2

\* A piece of a line of JSON: not blank and not a JSON document.
Fragment == [ws |-> FALSE, raw |-> "text", val |-> JNull]

BlankLine == [ws |-> FALSE, raw |-> "", val |-> JNull]

\* The lines the writer writes: an assistant message with usage and cost in
\* each format, a user message, a blank line.
StreamLines ==
    {Json("message" :> JObj("role" :> JStr(Lit("assistant")) @@ "content" :> JStr(A(2))
                            @@ "usage" :> SomeUsage)),
     Json("role" :> JStr(Lit("assistant")) @@ "content" :> JStr(B(3)) @@ FlatTokens),
     Json("role" :> JStr(Lit("user")) @@ "content" :> JStr(A(2))),
     BlankLine}

\* The lines a scanner returns from the chunks cs when it scans them to the
\* end of the file.
RECURSIVE ScanLines(_)
ScanLines(cs) ==
    IF cs = <<>> THEN <<>>
    ELSE CASE Head(cs).part = "whole" -> <<Head(cs).line>> \o ScanLines(Tail(cs))
           [] Head(cs).part = "head" ->
                 IF Len(cs) >= 2 THEN <<Head(cs).line>> \o ScanLines(Tail(Tail(cs)))
                 ELSE <<Fragment>>
           [] Head(cs).part = "rest" -> <<Fragment>> \o ScanLines(Tail(cs))

\* What is in the file beyond the reader's offset.
Unread == SubSeq(file, offset + 1, Len(file))

\* readLine(file): <<line>>, or <<>> for io.EOF.  Its scanner is new at every
\* call and reads all that is unread; the first line is returned.
readLine(unread) == IF unread = <<>> THEN <<>> ELSE <<Head(ScanLines(unread))>>

\* lines[start:]
SliceFrom(lines, start) == SubSeq(lines, start + 1, Len(lines))

Banner == <<CatAll(<<yellow, Lit("Streaming: "), Lit("<file>"), reset>>),
            CatAll(<<dim, Lit("<rule>"), reset, Lit("\n")>>)>>

\* The summary a dump ends with.
TotalLines ==
    IF totalContext > 0 \/ totalOutput > 0
    THEN <<CatAll(<<Lit("\n"), dim, Lit("<rule>"), reset>>),
           CatAll(<<dim, Lit("Total: ctx: "), formatNumber(totalContext), Lit(" | out: "),
                    formatNumber(totalOutput),
                    IF totalCost > 0 THEN Cat(Lit(" | "), formatCost(totalCost)) ELSE <<>>,
                    reset>>)>>
    ELSE <<>>

InitStream ==
    /\ line = BlankLine /\ calls = <<>>
    /\ arg = NoCall /\ ret = <<>>
    /\ verboseMode \in BOOLEAN
    /\ follow \in BOOLEAN
    /\ tail \in (0 - 1)..MaxTail
    /\ file = <<>> /\ offset = 0 /\ pc = "start"
    /\ pending = <<>> /\ processed = <<>> /\ printed = <<>>
    /\ totalContext = 0 /\ totalOutput = 0 /\ totalCost = 0

\* The writer appends a line, the head of a line or the rest of the line
\* whose head it wrote last.
Write ==
    /\ Len(file) < MaxFile
    /\ IF file # <<>> /\ file[Len(file)].part = "head"
       THEN file' = Append(file, [line |-> file[Len(file)].line, part |-> "rest"])
       ELSE \E l \in StreamLines, p \in {"whole", "head"} :
               /\ p = "head" => l.raw = "json"
               /\ file' = Append(file, [line |-> l, part |-> p])
    /\ UNCHANGED <<line, verboseMode, calls, helperVars, offset, follow, tail, pc,
                   pending, processed, printed, totalContext, totalOutput, totalCost>>

\* streamFile up to the loop of the initial display: the banner, the read of
\* all existing lines and the choice of the first line to show.
ReadAll ==
    /\ pc = "start"
    /\ LET lines == ScanLines(file)
           start == IF follow /\ Len(lines) > tail THEN Len(lines) - tail ELSE 0
       IN  IF start > Len(lines)
           THEN pc' = "panic" /\ pending' = <<>>
           ELSE pc' = "tail" /\ pending' = SliceFrom(lines, start)
    /\ offset' = Len(file)
    /\ printed' = Banner
    /\ UNCHANGED <<line, verboseMode, calls, helperVars, file, follow, tail, processed,
                   totalContext, totalOutput, totalCost>>

\* Process adding the input tokens of a usage, not its total, to the context
\* counter.
ProcessAddsInput(l) ==
    \E ord \in KeyOrders(RangedMaps(l)) :
        \E result \in {processLine(l, verboseMode, ord).res} :
            /\ processed' = Append(processed, [line |-> l, res |-> result])
            /\ printed' = IF result.Output # <<>> THEN Append(printed, result.Output)
                           ELSE printed
            /\ IF result.Usage # <<>>
               THEN /\ totalContext' = totalContext + result.Usage[1].Input
                    /\ totalOutput' = totalOutput + result.Usage[1].Output
                    /\ totalCost' = IF result.Usage[1].Cost # <<>>
                                     THEN totalCost + result.Usage[1].Cost[1].Total
                                     ELSE totalCost
               ELSE UNCHANGED <<totalContext, totalOutput, totalCost>>

\* result := processLine(l) and what both loops of streamFile do with it.
Process(l) ==
    \E ord \in KeyOrders(RangedMaps(l)) :
        \E result \in {processLine(l, verboseMode, ord).res} :
            /\ processed' = Append(processed, [line |-> l, res |-> result])
            /\ printed' = IF result.Output # <<>> THEN Append(printed, result.Output)
                           ELSE printed
            /\ IF result.Usage # <<>>
               THEN /\ totalContext' = totalContext + result.Usage[1].TotalTokens
                    /\ totalOutput' = totalOutput + result.Usage[1].Output
                    /\ totalCost' = IF result.Usage[1].Cost # <<>>
                                     THEN totalCost + result.Usage[1].Cost[1].Total
                                     ELSE totalCost
               ELSE UNCHANGED <<totalContext, totalOutput, totalCost>>

\* One turn of the loop of the initial display.
ShowTail ==
    /\ pc = "tail" /\ pending # <<>>
    /\ Process(Head(pending))
    /\ pending' = Tail(pending)
    /\ UNCHANGED <<line, verboseMode, calls, helperVars, file, offset, follow, tail, pc>>

\* After the initial display: a dump prints the total and returns, a follow
\* enters the follow loop.
EndTail ==
    /\ pc = "tail" /\ pending = <<>>
    /\ IF follow
       THEN pc' = "follow" /\ printed' = printed
       ELSE pc' = "done" /\ printed' = printed \o TotalLines
    /\ UNCHANGED <<line, verboseMode, calls, helperVars, file, offset, follow, tail,
                   pending, processed, totalContext, totalOutput, totalCost>>

\* One turn of the follow loop: readLine, then sleep at the end of the file
\* or process the line.
Poll ==
    /\ pc = "follow"
    /\ LET got == readLine(Unread)
       IN  IF got = <<>>
           THEN UNCHANGED <<offset, processed, printed, totalContext, totalOutput, totalCost>>
           ELSE offset' = Len(file) /\ Process(got[1])
    /\ UNCHANGED <<line, verboseMode, calls, helperVars, file, follow, tail, pc, pending>>

NextStream == Write \/ ReadAll \/ ShowTail \/ EndTail \/ Poll

SpecStream == InitStream /\ [][NextStream]_vars

(***************************************************************************)
(* SpecStreamAny is SpecStream with a writer that also writes a record      *)
(* whose usage holds negative numbers, which json.Unmarshal accepts for     *)
(* the int and float64 fields of Usage and Cost.                            *)
(***************************************************************************)
NegativeUsage ==
    JObj("input" :> JNum(0 - 3) @@ "output" :> JNum(0 - 2) @@ "totalTokens" :> JNum(0 - 5)
         @@ "cost" :> JObj("total" :> JNum(0 - 1)))

NegativeLine ==
    Json("message" :> JObj("role" :> JStr(Lit("assistant")) @@ "content" :> JStr(A(2))
                           @@ "usage" :> NegativeUsage))

\* The writer appends the record of negative usage as a whole line.
WriteNegative ==
    /\ Len(file) < MaxFile
    /\ IF file = <<>> THEN TRUE ELSE file[Len(file)].part # "head"
    /\ file' = Append(file, [line |-> NegativeLine, part |-> "whole"])
    /\ UNCHANGED <<line, verboseMode, calls, helperVars, offset, follow, tail, pc,
                   pending, processed, printed, totalContext, totalOutput, totalCost>>

NextStreamAny == Write \/ WriteNegative \/ ReadAll \/ ShowTail \/ EndTail \/ Poll

SpecStreamAny == InitStream /\ [][NextStreamAny]_vars

(***************************************************************************)
(* Properties of the line processor.                                        *)
(***************************************************************************)
RoleNames == {Lit(r) : r \in Roles}

\* The calls made so far that decoded an entry.
Decoded == {i \in 1..Len(calls) : calls[i].entry # <<>>}

\* Whether string s holds the panic of a slice out of range.
Panicked(s) == \E i \in 1..Len(s) : s[i].c = Panic[1].c

\* C1: normalizeEntry treats a record as flat-event exactly when the top-level
\* role is non-empty and message.role is empty, and then takes role, content
\* and timestamp from the top-level fields; in every other case it takes role,
\* content and usage from the nested message.
C1_Classification ==
    \A i \in Decoded :
        LET e == calls[i].entry[1]
            n == calls[i].norm[1]
        IN  IF e.Role # <<>> /\ e.Message.Role = <<>>
            THEN n.role = e.Role /\ n.content = e.Content /\ n.ts = JStr(e.TS)
            ELSE /\ n.role = e.Message.Role
                 /\ n.content = e.Message.Content
                 /\ n.usage = e.Message.Usage

\* A record with both roles populated and different, different contents and
\* flat token fields, normalised from its nested message.
C1_Witness ==
    \E i \in Decoded :
        LET e == calls[i].entry[1]
            n == calls[i].norm[1]
        IN  /\ e.Role # <<>> /\ e.Message.Role # <<>> /\ e.Role # e.Message.Role
            /\ e.Content # e.Message.Content
            /\ e.InTokens > 0 /\ e.Message.Usage = <<>>
            /\ n.role = e.Message.Role /\ n.usage = <<>>

\* C2: processLine returns a defined ProcessedLine for every line, and the
\* empty one whenever the trimmed line is empty, the line does not decode, the
\* normalised role is empty or the role is not a recognised role value.
C2_NeverFails ==
    \A i \in 1..Len(calls) :
        LET c == calls[i]
        IN  /\ ~Panicked(c.res.Output)
            /\ Len(c.res.Usage) <= 1
            /\ (line.raw # "json" => c.res = EmptyLine)
            /\ (c.entry = <<>> => c.res = EmptyLine)
            /\ (c.norm # <<>> /\ c.norm[1].role \notin RoleNames => c.res = EmptyLine)

\* A record whose role differs from a recognised one only in case.
C2_Witness ==
    \E i \in Decoded :
        /\ calls[i].norm[1].role = Lit("User")
        /\ calls[i].entry[1].Content # JNull
        /\ calls[i].res = EmptyLine

\* C3: a ProcessedLine carries a usage only if the role is assistant and the
\* output is non-empty, and then it is the normalised usage of the record.
C3_UsageOnlyAssistant ==
    \A i \in 1..Len(calls) :
        LET c == calls[i]
        IN  /\ c.res.Usage # <<>> =>
                  /\ c.norm # <<>>
                  /\ c.norm[1].role = Lit("assistant")
                  /\ c.res.Output # <<>>
            /\ (c.norm # <<>> /\ c.norm[1].role = Lit("assistant") /\ c.res.Output # <<>>)
                  => c.res.Usage = c.norm[1].usage

\* An assistant record with token fields and no text: it has a usage and
\* returns none.
C3_Witness ==
    \E i \in Decoded :
        /\ calls[i].norm[1].role = Lit("assistant")
        /\ calls[i].norm[1].usage # <<>>
        /\ calls[i].res = EmptyLine

\* C4: for a flat-event record a usage is synthesised iff in_tokens > 0 or
\* out_tokens > 0, with input = in_tokens, output = out_tokens and
\* totalTokens = in_tokens; a cost of total cost_usd is attached iff a usage
\* was synthesised and cost_usd > 0.
C4_FlatUsage ==
    \A i \in Decoded :
        LET e == calls[i].entry[1]
            u == calls[i].norm[1].usage
        IN  (e.Role # <<>> /\ e.Message.Role = <<>>) =>
                /\ u # <<>> <=> (e.InTokens > 0 \/ e.OutTokens > 0)
                /\ u # <<>> =>
                      /\ u[1].Input = e.InTokens
                      /\ u[1].Output = e.OutTokens
                      /\ u[1].TotalTokens = e.InTokens
                      /\ u[1].Cost # <<>> <=> e.CostUSD > 0
                      /\ u[1].Cost # <<>> => u[1].Cost[1].Total = e.CostUSD

\* A flat record with input and output tokens and a cost.
C4_Witness ==
    \E i \in Decoded :
        LET e == calls[i].entry[1]
            u == calls[i].norm[1].usage
        IN  /\ e.Role # <<>> /\ e.Message.Role = <<>>
            /\ e.InTokens > 0 /\ e.OutTokens > 0 /\ e.CostUSD > 0
            /\ u # <<>> /\ u[1].TotalTokens # u[1].Input + u[1].Output
            /\ u[1].Cost # <<>>

\* C5: processing the same line twice with the flag unchanged yields identical
\* ProcessedLine values.
C5_Idempotent ==
    \A i, j \in 1..Len(calls) :
        calls[i].verbose = calls[j].verbose => calls[i].res = calls[j].res

\* C6: a nested-message record (message.role populated) produces output only
\* when message.role is user, assistant, tool or system.
C6_NestedRoles ==
    \A i \in Decoded :
        (calls[i].entry[1].Message.Role # <<>> /\ calls[i].res.Output # <<>>)
            => calls[i].entry[1].Message.Role
                  \in {Lit("user"), Lit("assistant"), Lit("tool"), Lit("system")}

\* The results processLine may return for the line under flag value v.
ResultsUnder(v) ==
    {processLine(line, v, ord).res : ord \in KeyOrders(RangedMaps(line))}

HasToken(s, tok) == \E k \in 1..Len(s) : s[k].c = tok

\* C7: a request line yields the empty ProcessedLine with the flag off and an
\* output holding the [request] tag, without usage, with the flag on; the
\* flag changes the result of no other line.
C7_RequestVerbose ==
    \A i \in 1..Len(calls) :
        LET c == calls[i]
        IN  IF c.norm # <<>> /\ c.norm[1].role = Lit("request")
            THEN IF c.verbose
                 THEN /\ c.res.Output # <<>>
                      /\ HasToken(c.res.Output, "[request]")
                      /\ c.res.Usage = <<>>
                 ELSE c.res = EmptyLine
            ELSE c.res \in ResultsUnder(~c.verbose)

\* A request line processed with the flag off and, later, with the flag on.
C7_Witness ==
    \E i, j \in Decoded :
        /\ calls[i].norm[1].role = Lit("request")
        /\ ~calls[i].verbose /\ calls[j].verbose
        /\ calls[i].res = EmptyLine
        /\ calls[j].res.Output # <<>>

\* Whether a content sequence holds a block of the given type.
HasBlock(content, type) ==
    /\ content.t = "array"
    /\ \E k \in 1..Len(content.a) :
          content.a[k].t = "object" /\ TypeIs(content.a[k].o, type)

\* C8: for the text-rendering roles a content that extracts to an empty or
\* white-space-only string yields empty output.
C8_BlankIsSilent ==
    \A i \in Decoded :
        LET n == calls[i].norm[1]
        IN  (/\ \/ n.role \in {Lit("user"), Lit("thinking"), Lit("system")}
                \/ (n.role = Lit("tool") /\ ~HasBlock(n.content, "toolResult"))
                \/ (n.role = Lit("assistant") /\ ~HasBlock(n.content, "toolCall"))
             /\ TrimSpace(extractText(n.content)) = <<>>)
            => calls[i].res.Output = <<>>

\* The first k characters of s.
RECURSIVE TakeChars(_, _)
TakeChars(s, k) ==
    IF k <= 0 \/ s = <<>> THEN <<>>
    ELSE IF Head(s).n >= k THEN Run(Head(s).c, k)
    ELSE Cat(<<Head(s)>>, TakeChars(Tail(s), k - Head(s).n))

\* C9: for user and thinking a text of at most 500 characters is rendered in
\* full and a longer one as its first 200 characters followed by the marker
\* that reports its length.
C9_TextTruncation ==
    \A i \in Decoded :
        LET n == calls[i].norm[1]
            text == extractText(n.content)
            body == IF CharLen(text) <= 500 THEN text
                    ELSE Cat(TakeChars(text, 200), TruncMarker(CharLen(text)))
        IN  (n.role \in {Lit("user"), Lit("thinking")} /\ calls[i].res.Output # <<>>)
            => calls[i].res.Output =
                  IF n.role = Lit("user") THEN UserBlock(formatTs(n.ts), body)
                  ELSE ThinkingBlock(formatTs(n.ts), body)

\* Text t as a tool result shows it: unchanged up to 300 characters, else a
\* prefix of at most 300 characters followed by the ellipsis.
ShownResults(t) ==
    IF CharLen(t) <= 300 THEN {t}
    ELSE {Cat(TakeChars(t, k), Ellipsis) : k \in 0..300}

\* C10: wherever a tool result is rendered (a toolResult block, the plain text
\* of the tool role, a tool_result error) a text of at most 300 characters is
\* rendered unchanged and a longer one as a prefix of at most 300 characters
\* followed by the ellipsis.
C10_ResultTruncation ==
    \A i \in Decoded :
        LET n == calls[i].norm[1]
            out == calls[i].res.Output
        IN  /\ (/\ n.role = Lit("tool") /\ n.content.t = "array" /\ Len(n.content.a) = 1
                /\ HasBlock(n.content, "toolResult")
                /\ IsString(n.content.a[1].o, "text") /\ out # <<>>)
               => out \in {ResultLine(x) : x \in ShownResults(n.content.a[1].o["text"].s)}
            /\ (n.role = Lit("tool") /\ n.content.t = "string" /\ out # <<>>)
               => out \in {ResultLine(x) : x \in ShownResults(n.content.s)}
            /\ (/\ n.role = Lit("tool_result") /\ calls[i].entry[1].IsError
                /\ n.content.t = "string")
               => out \in {ErrorLine(x) : x \in ShownResults(n.content.s)}

\* The number of runs of token tok in s.
CountToken(s, tok) == Cardinality({k \in 1..Len(s) : s[k].c = tok})

\* The tool-call lines a call on the line may extract from content.
ToolCallLinesOf(content) ==
    {extractToolCalls(content, ord) : ord \in KeyOrders(RangedMaps(line))}

\* C12: for role assistant a non-empty output holds the Agent header exactly
\* once; with non-blank text it is the header, the text and one line per tool
\* call in order; with blank text and a tool call it is the header and the
\* tool-call lines; with blank text and no tool call the result is the empty
\* ProcessedLine.
C12_AssistantLayout ==
    \A i \in Decoded :
        LET n == calls[i].norm[1]
            out == calls[i].res.Output
            text == extractText(n.content)
            header == AgentHeader(formatTs(n.ts), formatTokenUsage(n.usage))
            body == CatAll(<<header, Lit("\n"), green, text, reset>>)
        IN  n.role = Lit("assistant") =>
              /\ out # <<>> => CountToken(out, "--- Agent") = 1
              /\ IF TrimSpace(text) # <<>>
                 THEN out \in {Join(<<body>> \o tc, Lit("\n")) :
                                  tc \in ToolCallLinesOf(n.content)}
                 ELSE IF HasBlock(n.content, "toolCall")
                 THEN out \in {Join(<<header>> \o tc, Lit("\n")) :
                                  tc \in ToolCallLinesOf(n.content)}
                 ELSE calls[i].res = EmptyLine

\* An assistant message of blank text and a tool call: the header with no
\* text, then the tool-call line.
C12_Witness ==
    \E i \in Decoded :
        LET n == calls[i].norm[1]
        IN  /\ n.role = Lit("assistant")
            /\ extractText(n.content) # <<>>
            /\ TrimSpace(extractText(n.content)) = <<>>
            /\ HasBlock(n.content, "toolCall")
            /\ CountToken(calls[i].res.Output, "--- Agent") = 1
            /\ CountToken(calls[i].res.Output, "<bolt> ") = 1

\* C13: a tool_result record whose content resolves to the empty text
\* produces no output, whether or not its error flag is set.
C13_EmptyResultSilent ==
    \A i \in Decoded :
        (/\ calls[i].norm[1].role = Lit("tool_result")
         /\ extractText(calls[i].norm[1].content) = <<>>)
        => calls[i].res.Output = <<>>

\* C17: a user record with content whose other fields are of any JSON type,
\* and whose nested message gives no role, is rendered as a user message.
C17_TypeMismatchRendered ==
    \A i \in 1..Len(calls) :
        (/\ line.raw = "json" /\ line.val.t = "object"
         /\ Get(line.val.o, "role") = JStr(Lit("user"))
         /\ Get(line.val.o, "content") = JStr(A(2))
         /\ LET m == Get(line.val.o, "message")
            IN  m.t # "object" \/ Get(m.o, "role") \in {JNull, JStr(<<>>)})
        => /\ HasToken(calls[i].res.Output, "--- You")
           /\ HasToken(calls[i].res.Output, "a")

\* The timestamp field a record's rendering takes its time from.
TimestampSource(e) ==
    IF e.Role # <<>> /\ e.Message.Role = <<>> THEN JStr(e.TS)
    ELSE IF e.TS # <<>> THEN JStr(e.TS) ELSE e.Timestamp

\* C20: the timestamp rendered for a nested-message record is that of ts when
\* ts is non-empty and else that of the timestamp field; for a flat-event
\* record it is that of ts only; a record with neither renders none.
C20_TimestampSource ==
    \A i \in Decoded :
        LET e == calls[i].entry[1]
            n == calls[i].norm[1]
            shown == formatTs(TimestampSource(e))
        IN  /\ (n.role = Lit("user") /\ n.content = JStr(A(2)))
                  => calls[i].res.Output = UserBlock(shown, A(2))
            /\ (n.role = Lit("request") /\ calls[i].verbose)
                  => calls[i].res.Output =
                        CatAll(<<Lit("\n"), blue, dim, Lit("[request]"), shown, reset>>)
            /\ (e.TS = <<>> /\ e.Timestamp = JNull /\ n.content.t = "string")
                  => ~HasToken(calls[i].res.Output, ":")

\* A flat-event record with an empty ts and a timestamp field, rendered with
\* no time.
C20_Witness ==
    \E i \in Decoded :
        LET e == calls[i].entry[1]
        IN  /\ e.Role = Lit("user") /\ e.Message.Role = <<>>
            /\ e.TS = <<>> /\ e.Timestamp # JNull
            /\ calls[i].res.Output = UserBlock(<<>>, A(2))

(***************************************************************************)
(* Properties of the extractors and formatters.                             *)
(***************************************************************************)
\* Whether the helper called is fn and has returned.
Returned(fn) == arg.fn = fn /\ ret # <<>>

\* The blocks of the given type among the elements of a content, in order.
BlocksOf(content, type) ==
    IF content.t # "array" THEN <<>>
    ELSE SelectSeq(content.a, LAMBDA b : b.t = "object" /\ TypeIs(b.o, type))

\* The summaries a toolCall block may be given, one for each key order.
SummariesOf(b) ==
    LET keys == IF "arguments" \in DOMAIN b.o /\ b.o["arguments"].t = "object"
                THEN DOMAIN b.o["arguments"].o ELSE {}
    IN  {ToolCallOf(b.o, ks) : ks \in Perms(keys)}

\* C11: extractToolCalls returns one summary for each element of the content
\* that is a block of type toolCall, in the order of the blocks, whatever
\* other elements lie between them, and none for a content that is no
\* sequence.
C11_OnePerToolCall ==
    Returned("extractToolCalls") =>
        LET blocks == BlocksOf(arg.content, "toolCall")
        IN  /\ Len(ret[1]) = Len(blocks)
            /\ \A k \in 1..Len(blocks) : ret[1][k] \in SummariesOf(blocks[k])
            /\ arg.content.t # "array" => ret[1] = <<>>

\* Two tool calls of different names with an element that is no tool call
\* between them: two summaries, in the order of the blocks.
C11_Witness ==
    /\ Returned("extractToolCalls")
    /\ arg.content.t = "array" /\ Len(arg.content.a) = 3
    /\ Len(BlocksOf(arg.content, "toolCall")) = 2
    /\ Len(ret[1]) = 2
    /\ HasToken(ret[1][1], "exec") /\ HasToken(ret[1][2], "read")

\* C14: formatTokenUsage returns the empty string iff the usage is absent or
\* totalTokens and output are both zero; otherwise it returns the ctx/out
\* annotation, with the cost segment iff a cost is present and its total is
\* strictly positive.
C14_TokenUsage ==
    Returned("formatTokenUsage") =>
        LET u == arg.usage
            none == u = <<>> \/ (u[1].TotalTokens = 0 /\ u[1].Output = 0)
            priced == u[1].Cost # <<>> /\ u[1].Cost[1].Total > 0
        IN  /\ ret[1] = <<>> <=> none
            /\ ~none =>
                  /\ HasToken(ret[1], "ctx: ") /\ HasToken(ret[1], " | out: ")
                  /\ HasToken(ret[1], "$") <=> priced
                  /\ ret[1] = CatAll(<<Lit(" "), dim, Lit("ctx: "),
                                       formatNumber(u[1].TotalTokens), Lit(" | out: "),
                                       Itoa(u[1].Output),
                                       IF priced
                                       THEN Cat(Lit(" | "), formatCost(u[1].Cost[1].Total))
                                       ELSE <<>>,
                                       reset>>)

\* A usage of zero totalTokens and non-zero output with a cost of total zero:
\* the annotation without a cost segment.
C14_Witness ==
    /\ Returned("formatTokenUsage")
    /\ arg.usage # <<>>
    /\ arg.usage[1].TotalTokens = 0 /\ arg.usage[1].Output > 0
    /\ arg.usage[1].Cost # <<>> /\ arg.usage[1].Cost[1].Total = 0
    /\ ret[1] # <<>> /\ ~HasToken(ret[1], "$")

\* t tenths printed with one decimal and the suffix k.
Tenths(t) == CatAll(<<Itoa(t \div 10), Lit("."), Lit(DigitChar(t % 10)), Lit("k")>>)

\* C18: formatNumber returns the plain decimal string of n for 0 <= n < 1000
\* and, for n >= 1000, n/1000 rounded to one decimal place (a nearest number
\* of tenths) followed by k.
C18_FormatNumber ==
    Returned("formatNumber") =>
        LET n == arg.n
        IN  IF n < 1000 THEN ret[1] = Itoa(n)
            ELSE \E t \in {n \div 100, n \div 100 + 1} :
                    /\ ret[1] = Tenths(t)
                    /\ 100 * t - n <= 50 /\ n - 100 * t <= 50

\* 85178 printed as 85.2k.
C18_Witness ==
    /\ Returned("formatNumber")
    /\ arg.n = 85178
    /\ ret[1] = CatAll(<<Lit("8"), Lit("5"), Lit("."), Lit("2"), Lit("k")>>)

\* The text of a toolResult block: its text field when a string, else the
\* text fields of its nested content sequence joined by spaces, else its
\* content stringified.
Resolved(b) ==
    IF IsString(b.o, "text") THEN b.o["text"].s
    ELSE IF "content" \notin DOMAIN b.o THEN <<>>
    ELSE IF b.o["content"].t = "array"
         THEN Join(NestedTexts(b.o["content"].a), Lit(" "))
         ELSE Sprint(b.o["content"])

\* C19: extractToolResults returns, in block order, one entry for each
\* toolResult block whose resolved text is not blank and none for a block
\* whose resolved text is empty or white space only.
C19_NonBlankResults ==
    Returned("extractToolResults") =>
        LET kept == SelectSeq(BlocksOf(arg.content, "toolResult"),
                              LAMBDA b : TrimSpace(Resolved(b)) # <<>>)
        IN  /\ Len(ret[1]) = Len(kept)
            /\ \A k \in 1..Len(kept) :
                  ret[1][k] = ResultLine(TruncateResult(Resolved(kept[k])))

(***************************************************************************)
(* Properties of the streamer.                                              *)
(***************************************************************************)
\* The lines handed to processLine so far, in order.
ProcessedLines == [i \in 1..Len(processed) |-> processed[i].line]

\* The lines the initial read found in the file.
LinesRead == ScanLines(SubSeq(file, 1, offset))

\* C15: in dump mode with -n N streamFile displays only the last N lines of
\* the file and then exits.
C15_DumpShowsLastN ==
    (pc = "done" /\ ~follow /\ tail >= 0) =>
        LET n == IF tail < Len(LinesRead) THEN tail ELSE Len(LinesRead)
        IN  ProcessedLines = SubSeq(LinesRead, Len(LinesRead) - n + 1, Len(LinesRead))

\* The sum of f over the processed lines 1..k whose result carries a usage.
RECURSIVE SumUsage(_, _)
SumUsage(f(_), k) ==
    IF k = 0 THEN 0
    ELSE SumUsage(f, k - 1)
         + (IF processed[k].res.Usage # <<>> THEN f(processed[k].res.Usage[1]) ELSE 0)

CostTotal(u) == IF u.Cost # <<>> THEN u.Cost[1].Total ELSE 0

\* C16: at every moment the outputs printed are the non-empty outputs of the
\* lines processed so far, in the order the lines were processed (after the
\* banner and, when a dump has ended, before its total), each is the output
\* processLine gives the line, and the three counters are the sums of
\* totalTokens, output and cost total over the processed lines whose result
\* carries a usage.
C16_PrintedAndCounted ==
    pc \notin {"idle", "start"} =>
        LET outputs == SelectSeq([i \in 1..Len(processed) |-> processed[i].res.Output],
                                 LAMBDA o : o # <<>>)
        IN  /\ printed = Banner \o outputs \o (IF pc = "done" THEN TotalLines ELSE <<>>)
            /\ \A i \in 1..Len(processed) :
                  processed[i].res \in
                      {processLine(processed[i].line, verboseMode, ord).res :
                          ord \in KeyOrders(RangedMaps(processed[i].line))}
            /\ totalContext = SumUsage(LAMBDA u : u.TotalTokens, Len(processed))
            /\ totalOutput = SumUsage(LAMBDA u : u.Output, Len(processed))
            /\ totalCost = SumUsage(CostTotal, Len(processed))

\* Three lines processed, in the initial display and in the follow loop: two
\* with a usage of different totals and one that prints without a usage.
C16_Witness ==
    /\ pc = "follow" /\ Len(processed) = 3
    /\ \E i, j, k \in 1..3 :
          /\ processed[i].res.Usage # <<>> /\ processed[j].res.Usage # <<>>
          /\ processed[i].res.Usage[1].TotalTokens # processed[j].res.Usage[1].TotalTokens
          /\ processed[k].res.Usage = <<>> /\ processed[k].res.Output # <<>>
    /\ Len(pending) = 0 /\ tail = 1
    /\ totalContext = 85278 /\ totalOutput = 216 /\ totalCost = 4957

\* The lines a step hands to processLine.
NewlyProcessed ==
    [i \in 1..(Len(processed') - Len(processed)) |-> processed'[Len(processed) + i].line]

\* Whether all the chunks cs are whole lines.
AllWhole(cs) == \A i \in 1..Len(cs) : cs[i].part = "whole"

\* C21: in follow mode every complete line appended to the file is passed to
\* processLine exactly once and in append order: the whole lines a poll moves
\* the reader past are the lines that poll processes, however many were
\* appended since the poll before.
C21_EveryLineOnce ==
    [][(pc = "follow" /\ AllWhole(SubSeq(file, offset + 1, offset')))
          => NewlyProcessed = [i \in 1..(offset' - offset) |-> file[offset + i].line]]_vars

\* C22: in follow mode every string passed to processLine is a whole line of
\* the file: a poll hands over no piece of a line.
C22_WholeLinesOnly ==
    [][pc = "follow"
          => \A i \in 1..Len(NewlyProcessed) : NewlyProcessed[i] \in StreamLines]_vars

\* C23: in follow mode, for every file and every tail value, the initial
\* display processes the last min(max(tail, 0), L) of the L lines of the
\* file, in file order, and the follow loop is entered without failing.
C23_TailOfFile ==
    follow =>
        /\ pc # "panic"
        /\ pc = "tail" =>
              LET L == Len(LinesRead)
                  n == IF tail < 0 THEN 0 ELSE IF tail < L THEN tail ELSE L
              IN  ProcessedLines \o pending = SubSeq(LinesRead, L - n + 1, L)

\* Whether usage u has no negative token count and no negative cost total.
NonNegative(u) ==
    /\ u.Input >= 0 /\ u.Output >= 0 /\ u.CacheRead >= 0 /\ u.CacheWrite >= 0
    /\ u.TotalTokens >= 0
    /\ u.Cost # <<>> => u.Cost[1].Total >= 0

\* C24: every usage processLine returns has non-negative token counts and a
\* non-negative cost total, and each running counter is non-negative and
\* never decreases.
C24_CountersGrow ==
    [][/\ \A i \in 1..Len(processed') :
             processed'[i].res.Usage # <<>> => NonNegative(processed'[i].res.Usage[1])
       /\ totalContext' >= 0 /\ totalOutput' >= 0 /\ totalCost' >= 0
       /\ totalContext' >= totalContext
       /\ totalOutput' >= totalOutput
       /\ totalCost' >= totalCost]_vars

====
